---- MODULE Spec2Model ----
(***************************************************************************)
(* Model of the pet simulation core of my-desktop-pet                      *)
(* (src-tauri/src/lib.rs): PetState::new, PetState::update and the two     *)
(* commands get_pet_movement and reset_pet_position.                       *)
(*                                                                         *)
(* The f32 quantities are kept in fixed point:                             *)
(*   time      in milliseconds,                                            *)
(*   velocity  in 1/VEL of a pixel per second,                             *)
(*   position  in 1/PX of a pixel, PX = VEL * 1000,                        *)
(* so that velocity * delta_time is a position and GRAVITY * delta_time is *)
(* a velocity without rounding.  The two bounce factors and the launch     *)
(* inversion are the only roundings; they truncate toward zero.            *)
(***************************************************************************)
EXTENDS Integers, FiniteSets, Sequences, TLC

\* velocity units per pixel per second
VEL == 100
\* position units per pixel
PX == VEL * 1000

Px(n) == n * PX

Abs(n) == IF n < 0 THEN -n ELSE n
Min(a, b) == IF a <= b THEN a ELSE b

\* v * num / den, truncated toward zero
Scale(v, num, den) ==
    IF v * num >= 0 THEN (v * num) \div den ELSE -((-(v * num)) \div den)

------------------------------------------------------------------------------
(* Constants of lib.rs *)

DEFAULT_WINDOW_WIDTH == 400
DEFAULT_WINDOW_HEIGHT == 300
PET_WIDTH == 32
PET_HEIGHT == 30
GRAVITY == 980
JUMP_FORCE == -500
MAX_SPEED_X == 200
MOVEMENT_THRESHOLD == 5
\* delta_time.min(0.05), in milliseconds
MAX_DELTA == 50
\* update's validity threshold (window_width <= 10.0)
UPDATE_MIN_DIM == 10
\* new's validity threshold (window_width <= 0.0)
NEW_MIN_DIM == 0
\* the viewport run() constructs the pet with
START_WIDTH == 1920
START_HEIGHT == 1032

------------------------------------------------------------------------------
(* Bounds of the model *)

\* number of commands the host issues in a run
MaxCalls == 3

\* viewports <<width, height>> the host supplies, in pixels: width unknown (0)
\* with a height between the two validity thresholds, smaller than the pet,
\* barely larger than the pet, the default, and the one run() starts with
Viewports ==
    {<<0, 5>>, <<20, 20>>, <<40, 40>>, <<400, 300>>, <<START_WIDTH, START_HEIGHT>>}
\* wall time between two readings of the clock, in ms
Elapsed == {0, 16, 10000}
\* rng.gen_range(0.0..MAX_SPEED_X): 0 is included, MAX_SPEED_X is not
LaunchRight == {0, MAX_SPEED_X * VEL - 1}
\* rng.gen_range(-MAX_SPEED_X..0.0): -MAX_SPEED_X is included, 0 is not
LaunchLeft == {-(MAX_SPEED_X * VEL), -1}

------------------------------------------------------------------------------
(* State *)

VARIABLES pet, call, mutex, task

vars == <<pet, call, mutex, task>>

\* the host's threads that invoke the commands
Callbacks == {1, 2}
\* a callback that is not inside a command
Idle ==
    [pc |-> "idle", op |-> "none", window_width |-> 0, window_height |-> 0,
     produced |-> <<>>, returned |-> <<>>]

AnimationState ==
    {"idle-right", "idle-left", "run-right", "run-left",
     "jump-right", "jump-left", "fall-right", "fall-left"}

------------------------------------------------------------------------------
(* PetState::new *)

NewEffectiveWidth(window_width) ==
    IF window_width <= Px(NEW_MIN_DIM) THEN Px(DEFAULT_WINDOW_WIDTH) ELSE window_width

NewEffectiveHeight(window_height) ==
    IF window_height <= Px(NEW_MIN_DIM) THEN Px(DEFAULT_WINDOW_HEIGHT) ELSE window_height

New(window_width, window_height, now) ==
    LET effective_width == NewEffectiveWidth(window_width)
        effective_height == NewEffectiveHeight(window_height)
    IN  [x |-> effective_width \div 2 - Px(PET_WIDTH) \div 2,
         y |-> effective_height - Px(PET_HEIGHT),
         velocity_x |-> 0,
         velocity_y |-> 0,
         last_update |-> now,
         is_on_ground |-> TRUE,
         window_width |-> effective_width,
         window_height |-> effective_height,
         animation_state |-> "idle-right",
         facing_direction |-> TRUE]

------------------------------------------------------------------------------
(* PetState::update, stage by stage *)

\* lines 106-115: the cached viewport follows the arguments when they moved
CacheWindow(self, window_width, window_height) ==
    IF \/ Abs(self.window_width - window_width) > Px(1)
       \/ Abs(self.window_height - window_height) > Px(1)
    THEN [self EXCEPT !.window_width = window_width,
                      !.window_height = window_height]
    ELSE self

\* Instant::duration_since saturates at zero
DurationSince(now, earlier) == IF now >= earlier THEN now - earlier ELSE 0

\* slip: the cap is ten times too large
ClampDeltaLoose(elapsed) == Min(elapsed, 10 * MAX_DELTA)


ClampDelta(elapsed) == Min(elapsed, MAX_DELTA)

\* lines 130-132; GRAVITY px/s^2 * ms = GRAVITY * VEL / 1000 velocity units per ms
\* slip: gravity pulls the pet only while it stands
ApplyGravityGrounded(self, delta_time) ==
    IF self.is_on_ground
    THEN [self EXCEPT !.velocity_y = @ + (GRAVITY * VEL * delta_time) \div 1000]
    ELSE self

ApplyGravity(self, delta_time) ==
    IF ~self.is_on_ground
    THEN [self EXCEPT !.velocity_y = @ + (GRAVITY * VEL * delta_time) \div 1000]
    ELSE self

\* slip: || for && in the condition of line 136
JumpEitherCondition(self, jump_trial, launch, invert) ==
    IF self.is_on_ground \/ jump_trial
    THEN [self EXCEPT !.velocity_y = JUMP_FORCE * VEL,
                      !.velocity_x = IF invert THEN Scale(-launch, 1, 2) ELSE launch,
                      !.is_on_ground = FALSE]
    ELSE self

\* slip: the jump turns the pet towards its launch velocity
JumpTurning(self, jump_trial, launch, invert) ==
    IF self.is_on_ground /\ jump_trial
    THEN LET v == IF invert THEN Scale(-launch, 1, 2) ELSE launch
         IN  [self EXCEPT !.velocity_y = JUMP_FORCE * VEL,
                          !.velocity_x = v,
                          !.is_on_ground = FALSE,
                          !.facing_direction = (v >= 0)]
    ELSE self

\* lines 136-150
Jump(self, jump_trial, launch, invert) ==
    IF self.is_on_ground /\ jump_trial
    THEN [self EXCEPT !.velocity_y = JUMP_FORCE * VEL,
                      !.velocity_x = IF invert THEN Scale(-launch, 1, 2) ELSE launch,
                      !.is_on_ground = FALSE]
    ELSE self

\* lines 153-154
Integrate(self, delta_time) ==
    [self EXCEPT !.x = @ + self.velocity_x * delta_time,
                 !.y = @ + self.velocity_y * delta_time]

UpdateEffectiveWidth(window_width) ==
    IF window_width <= Px(UPDATE_MIN_DIM) THEN Px(DEFAULT_WINDOW_WIDTH) ELSE window_width

UpdateEffectiveHeight(window_height) ==
    IF window_height <= Px(UPDATE_MIN_DIM) THEN Px(DEFAULT_WINDOW_HEIGHT) ELSE window_height

FloorFires(self, effective_height) == self.y > effective_height - Px(PET_HEIGHT)

\* slip: the landing keeps the vertical velocity
FloorRuleKeepVelocity(self, effective_height) ==
    IF FloorFires(self, effective_height)
    THEN [self EXCEPT !.y = effective_height - Px(PET_HEIGHT),
                      !.is_on_ground = TRUE]
    ELSE self

\* slip: the operands of the floor coordinate are swapped
FloorRuleSwapped(self, effective_height) ==
    IF FloorFires(self, effective_height)
    THEN [self EXCEPT !.y = Px(PET_HEIGHT) - effective_height,
                      !.velocity_y = 0,
                      !.is_on_ground = TRUE]
    ELSE self


FloorRule(self, effective_height) ==
    IF FloorFires(self, effective_height)
    THEN [self EXCEPT !.y = effective_height - Px(PET_HEIGHT),
                      !.velocity_y = 0,
                      !.is_on_ground = TRUE]
    ELSE self

CeilingFires(self) == self.y < 0

\* slip: the ceiling stops the pet but does not move it back inside
CeilingRuleNoClamp(self) ==
    IF CeilingFires(self)
    THEN [self EXCEPT !.velocity_y = 0]
    ELSE self


CeilingRule(self) ==
    IF CeilingFires(self)
    THEN [self EXCEPT !.y = 0, !.velocity_y = 0]
    ELSE self

LeftFires(self) == self.x < 0

\* slip: the left wall divides by its factor
LeftRuleGain(self) ==
    IF LeftFires(self)
    THEN [self EXCEPT !.x = 0,
                      !.velocity_x = Scale(-self.velocity_x, 5, 4),
                      !.facing_direction = TRUE]
    ELSE self

\* slip: the left wall uses the right wall's factor
LeftRuleHalf(self) ==
    IF LeftFires(self)
    THEN [self EXCEPT !.x = 0,
                      !.velocity_x = Scale(-self.velocity_x, 1, 2),
                      !.facing_direction = TRUE]
    ELSE self


LeftRule(self) ==
    IF LeftFires(self)
    THEN [self EXCEPT !.x = 0,
                      !.velocity_x = Scale(-self.velocity_x, 4, 5),
                      !.facing_direction = TRUE]
    ELSE self

RightFires(self, effective_width) == self.x > effective_width - Px(PET_WIDTH)

\* slip: the right wall bounces the pet but does not move it back inside
RightRuleNoClamp(self, effective_width) ==
    IF RightFires(self, effective_width)
    THEN [self EXCEPT !.velocity_x = Scale(-self.velocity_x, 1, 2),
                      !.facing_direction = FALSE]
    ELSE self


RightRule(self, effective_width) ==
    IF RightFires(self, effective_width)
    THEN [self EXCEPT !.x = effective_width - Px(PET_WIDTH),
                      !.velocity_x = Scale(-self.velocity_x, 1, 2),
                      !.facing_direction = FALSE]
    ELSE self

\* slip: the running label follows facing_direction
ClassifyByFacing(self) ==
    IF ~self.is_on_ground
    THEN IF self.velocity_y < 0
         THEN IF self.facing_direction THEN "jump-right" ELSE "jump-left"
         ELSE IF self.facing_direction THEN "fall-right" ELSE "fall-left"
    ELSE IF Abs(self.velocity_x) > MOVEMENT_THRESHOLD * VEL
         THEN IF self.facing_direction THEN "run-right" ELSE "run-left"
         ELSE IF self.facing_direction THEN "idle-right" ELSE "idle-left"

\* lines 197-229
Classify(self) ==
    IF ~self.is_on_ground
    THEN IF self.velocity_y < 0
         THEN IF self.facing_direction THEN "jump-right" ELSE "jump-left"
         ELSE IF self.facing_direction THEN "fall-right" ELSE "fall-left"
    ELSE IF Abs(self.velocity_x) > MOVEMENT_THRESHOLD * VEL
         THEN IF self.velocity_x >= 0 THEN "run-right" ELSE "run-left"
         ELSE IF self.facing_direction THEN "idle-right" ELSE "idle-left"

SetAnimation(self) == [self EXCEPT !.animation_state = Classify(self)]

\* The whole of update.  Besides the state update leaves behind (pet), the
\* values of the call that the state does not keep:
\*   jump             the pet was grounded and the trial of line 136 succeeded
\*   impulse          lines 137-149 ran: the jump changed the state
\*   integrated       position and velocity after line 154, before the
\*                    boundary rules
\*   floor .. right   which of the four boundary rules fired
Update(self, window_width, window_height, now, jump_trial, launch, invert) ==
    LET cached == CacheWindow(self, window_width, window_height)
        elapsed == DurationSince(now, self.last_update)
        delta_time == ClampDelta(elapsed)
        stamped == [cached EXCEPT !.last_update = now]
        fallen == ApplyGravity(stamped, delta_time)
        jumped == Jump(fallen, jump_trial, launch, invert)
        integrated == Integrate(jumped, delta_time)
        effective_width == UpdateEffectiveWidth(window_width)
        effective_height == UpdateEffectiveHeight(window_height)
        floored == FloorRule(integrated, effective_height)
        ceiled == CeilingRule(floored)
        lefted == LeftRule(ceiled)
        righted == RightRule(lefted, effective_width)
    IN  [pet |-> SetAnimation(righted),
         elapsed |-> elapsed,
         delta_time |-> delta_time,
         jump |-> self.is_on_ground /\ jump_trial,
         impulse |-> jumped # fallen,
         integrated |-> [x |-> integrated.x, y |-> integrated.y,
                         velocity_x |-> integrated.velocity_x,
                         velocity_y |-> integrated.velocity_y],
         effective_width |-> effective_width,
         effective_height |-> effective_height,
         floor |-> FloorFires(integrated, effective_height),
         ceiling |-> CeilingFires(floored),
         left |-> LeftFires(ceiled),
         right |-> RightFires(lefted, effective_width)]

------------------------------------------------------------------------------
(* The commands.  call records the latest command: its ordinal, its name,  *)
(* its arguments as supplied, the reading of the clock, the stance it      *)
(* started from and what the call computed on the way.  unlanded tells     *)
(* that a jump impulse has been given and the floor rule has not fired     *)
(* since.                                                                  *)

Stance(self) ==
    [is_on_ground |-> self.is_on_ground,
     facing_direction |-> self.facing_direction]

\* the floor rule (line 170) comes after the impulse (line 137) in a call
Unlanded(was, impulse, floor) ==
    IF floor THEN FALSE ELSE IF impulse THEN TRUE ELSE was

Motion(self) ==
    [x |-> self.x, y |-> self.y,
     velocity_x |-> self.velocity_x, velocity_y |-> self.velocity_y]

\* run(): AppState { pet: Mutex::new(PetState::new(1920.0, 1032.0)) }
Init ==
    /\ pet = New(Px(START_WIDTH), Px(START_HEIGHT), 0)
    /\ call = [seq |-> 0, op |-> "run",
               window_width |-> Px(START_WIDTH), window_height |-> Px(START_HEIGHT),
               effective_width |-> NewEffectiveWidth(Px(START_WIDTH)),
               effective_height |-> NewEffectiveHeight(Px(START_HEIGHT)),
               now |-> 0, elapsed |-> 0, delta_time |-> 0, jump |-> FALSE,
               impulse |-> FALSE, unlanded |-> FALSE,
               before |-> Stance(pet),
               integrated |-> Motion(pet),
               floor |-> FALSE, ceiling |-> FALSE, left |-> FALSE, right |-> FALSE]
    /\ mutex = 0
    /\ task = [t \in Callbacks |-> Idle]

\* Instant::now() is monotonic: it reads e past the previous reading
Now(e) == pet.last_update + e

get_pet_movement(window_width, window_height, e, jump_trial, launch, invert) ==
    /\ call.seq < MaxCalls
    /\ LET u == Update(pet, window_width, window_height, Now(e), jump_trial, launch, invert)
       IN  /\ pet' = u.pet
           /\ call' = [seq |-> call.seq + 1, op |-> "get_pet_movement",
                       window_width |-> window_width, window_height |-> window_height,
                       effective_width |-> u.effective_width,
                       effective_height |-> u.effective_height,
                       now |-> Now(e),
                       elapsed |-> u.elapsed, delta_time |-> u.delta_time,
                       jump |-> u.jump,
                       impulse |-> u.impulse,
                       unlanded |-> Unlanded(call.unlanded, u.impulse, u.floor),
                       before |-> Stance(pet),
                       integrated |-> u.integrated,
                       floor |-> u.floor, ceiling |-> u.ceiling,
                       left |-> u.left, right |-> u.right]

\* slip: reset moves the pet but keeps its motion
reset_keeping_motion(window_width, window_height, e) ==
    /\ call.seq < MaxCalls
    /\ pet' = [New(window_width, window_height, Now(e)) EXCEPT
                   !.velocity_x = pet.velocity_x,
                   !.velocity_y = pet.velocity_y,
                   !.is_on_ground = pet.is_on_ground]
    /\ call' = [seq |-> call.seq + 1, op |-> "reset_pet_position",
                window_width |-> window_width, window_height |-> window_height,
                effective_width |-> NewEffectiveWidth(window_width),
                effective_height |-> NewEffectiveHeight(window_height),
                now |-> Now(e), elapsed |-> e, delta_time |-> 0, jump |-> FALSE,
                impulse |-> FALSE, unlanded |-> call.unlanded,
                before |-> Stance(pet),
                integrated |-> Motion(pet'),
                floor |-> FALSE, ceiling |-> FALSE, left |-> FALSE, right |-> FALSE]


reset_pet_position(window_width, window_height, e) ==
    /\ call.seq < MaxCalls
    /\ pet' = New(window_width, window_height, Now(e))
    /\ call' = [seq |-> call.seq + 1, op |-> "reset_pet_position",
                window_width |-> window_width, window_height |-> window_height,
                effective_width |-> NewEffectiveWidth(window_width),
                effective_height |-> NewEffectiveHeight(window_height),
                now |-> Now(e), elapsed |-> e, delta_time |-> 0, jump |-> FALSE,
                impulse |-> FALSE, unlanded |-> call.unlanded,
                before |-> Stance(pet),
                integrated |-> Motion(pet'),
                floor |-> FALSE, ceiling |-> FALSE, left |-> FALSE, right |-> FALSE]

Launches(self) == IF self.facing_direction THEN LaunchRight ELSE LaunchLeft

Advance ==
    /\ \E v \in Viewports, e \in Elapsed :
        \/ get_pet_movement(Px(v[1]), Px(v[2]), e, FALSE, 0, FALSE)
        \/ \E launch \in Launches(pet), invert \in BOOLEAN :
               get_pet_movement(Px(v[1]), Px(v[2]), e, TRUE, launch, invert)
    /\ UNCHANGED <<mutex, task>>

Reset ==
    /\ \E v \in Viewports, e \in Elapsed :
           reset_pet_position(Px(v[1]), Px(v[2]), e)
    /\ UNCHANGED <<mutex, task>>

Next == Advance \/ Reset

Spec == Init /\ [][Next]_vars

------------------------------------------------------------------------------
(* The commands as the host runs them: several callbacks, one Mutex *)

LockViewports == {<<40, 40>>, <<DEFAULT_WINDOW_WIDTH, DEFAULT_WINDOW_HEIGHT>>}
LockElapsed == {16}
LockLaunch(self) ==
    IF self.facing_direction THEN MAX_SPEED_X * VEL - 1 ELSE -(MAX_SPEED_X * VEL)

\* (pet.x, pet.y, pet.animation_state.to_string().to_string())
Triple(self) == <<self.x, self.y, self.animation_state>>

\* commands started, finished or not
Started == call.seq + Cardinality({t \in Callbacks : task[t].pc # "idle"})

\* the host calls a command with its arguments
Invoke(t) ==
    /\ task[t].pc = "idle"
    /\ Started < MaxCalls
    /\ \E op \in {"get_pet_movement", "reset_pet_position"}, v \in LockViewports :
           task' = [task EXCEPT ![t] = [Idle EXCEPT !.pc = "invoked", !.op = op,
                                                    !.window_width = Px(v[1]),
                                                    !.window_height = Px(v[2])]]
    /\ UNCHANGED <<pet, call, mutex>>

\* slip: lock() returns at once
LockNoWait(t) ==
    /\ task[t].pc = "invoked"
    /\ mutex' = t
    /\ task' = [task EXCEPT ![t].pc = "locked"]
    /\ UNCHANGED <<pet, call>>

\* state.pet.lock().unwrap(): blocks while another callback holds the guard
Lock(t) ==
    /\ task[t].pc = "invoked"
    /\ mutex = 0
    /\ mutex' = t
    /\ task' = [task EXCEPT ![t].pc = "locked"]
    /\ UNCHANGED <<pet, call>>

\* pet.update(window_width, window_height)
RunAdvance(t) ==
    /\ task[t].pc = "locked"
    /\ task[t].op = "get_pet_movement"
    /\ \E e \in LockElapsed, jump_trial \in BOOLEAN :
           get_pet_movement(task[t].window_width, task[t].window_height, e,
                            jump_trial, LockLaunch(pet), FALSE)
    /\ task' = [task EXCEPT ![t].pc = "updated", ![t].produced = Triple(pet')]
    /\ UNCHANGED mutex

\* *pet = PetState::new(window_width, window_height)
RunReset(t) ==
    /\ task[t].pc = "locked"
    /\ task[t].op = "reset_pet_position"
    /\ \E e \in LockElapsed :
           reset_pet_position(task[t].window_width, task[t].window_height, e)
    /\ task' = [task EXCEPT ![t].pc = "updated", ![t].produced = Triple(pet')]
    /\ UNCHANGED mutex

\* the tuple the command returns is read through the guard
Read(t) ==
    /\ task[t].pc = "updated"
    /\ task' = [task EXCEPT ![t].pc = "read", ![t].returned = Triple(pet)]
    /\ UNCHANGED <<pet, call, mutex>>

\* the guard is dropped when the command returns
Unlock(t) ==
    /\ task[t].pc = "read"
    /\ mutex' = IF mutex = t THEN 0 ELSE mutex
    /\ task' = [task EXCEPT ![t] = Idle]
    /\ UNCHANGED <<pet, call>>

NextLock ==
    \E t \in Callbacks :
        \/ Invoke(t)
        \/ Lock(t)
        \/ RunAdvance(t)
        \/ RunReset(t)
        \/ Read(t)
        \/ Unlock(t)

SpecLock == Init /\ [][NextLock]_vars

------------------------------------------------------------------------------
(* The frame loop in a viewport that stays as it is *)

LiveViewports == {<<40, 40>>, <<DEFAULT_WINDOW_WIDTH, DEFAULT_WINDOW_HEIGHT>>}
LiveElapsed == {0, 16, 10000}
\* the slowest launch of each range: the rules for the floor and the ceiling
\* read y and velocity_y only (lines 170, 177)
LiveLaunches(self) == IF self.facing_direction THEN {0} ELSE {-1}

\* the first command places the pet in the viewport the frames will supply
LiveReset ==
    /\ call.op = "run"
    /\ \E v \in LiveViewports : reset_pet_position(Px(v[1]), Px(v[2]), 0)
    /\ UNCHANGED <<mutex, task>>

\* get_pet_movement with the viewport of the call before.  update reads the
\* clock only through duration_since(last_update) (line 118), so the
\* readings are kept relative to the one before: last_update stays 0 and the
\* number of frames is not counted.
Frame(e, jump_trial, launch, invert) ==
    /\ call.op # "run"
    /\ \E u \in {Update(pet, call.window_width, call.window_height, Now(e),
                          jump_trial, launch, invert)} :
           /\ pet' = [u.pet EXCEPT !.last_update = 0]
           /\ call' = [call EXCEPT
                           !.op = "get_pet_movement",
                           !.effective_width = u.effective_width,
                           !.effective_height = u.effective_height,
                           !.now = Now(e),
                           !.elapsed = u.elapsed, !.delta_time = u.delta_time,
                           !.jump = u.jump, !.impulse = u.impulse,
                           !.unlanded = Unlanded(call.unlanded, u.impulse, u.floor),
                           !.before = Stance(pet),
                           !.integrated = u.integrated,
                           !.floor = u.floor, !.ceiling = u.ceiling,
                           !.left = u.left, !.right = u.right]
    /\ UNCHANGED <<mutex, task>>

Frames(e) ==
    \/ Frame(e, FALSE, 0, FALSE)
    \/ \E launch \in LiveLaunches(pet) : Frame(e, TRUE, launch, FALSE)

\* a frame that finds the clock where the frame before left it
ZeroFrame == Frames(0)

\* a frame with delta_time > 0
PositiveFrame == \E e \in LiveElapsed \ {0} : Frames(e)

NextLive == LiveReset \/ ZeroFrame \/ PositiveFrame

\* the frontend keeps requesting frames, and time passes between some of them
SpecLive == Init /\ [][NextLive]_vars /\ WF_vars(PositiveFrame)

------------------------------------------------------------------------------
(* Properties *)

IsAdvance == call.op = "get_pet_movement"
IsReset == call.op = "reset_pet_position"

\* [lo, hi] of positions
Within(p, lo, hi) == lo <= p /\ p <= hi

\* C1 (bounds invariant): after every advance whose viewport is at least
\* 400 wide and 300 high, whatever the jump trial, the launch velocity and
\* delta_time were, position.x is in [0, width - 32] and position.y is in
\* [0, height - 30] for the width and height supplied to that call.  It is
\* stated of each such call whatever the earlier calls supplied, hence of
\* every sequence in which all calls supply such viewports.
C1_BoundsInvariant ==
    (/\ IsAdvance
     /\ call.window_width >= Px(DEFAULT_WINDOW_WIDTH)
     /\ call.window_height >= Px(DEFAULT_WINDOW_HEIGHT))
    => /\ Within(pet.x, 0, call.window_width - Px(PET_WIDTH))
       /\ Within(pet.y, 0, call.window_height - Px(PET_HEIGHT))

\* an advance with a 400x300 viewport found the pet beyond the right edge and
\* below the floor and put it back on both
C1_Witness ==
    /\ IsAdvance
    /\ call.window_width = Px(DEFAULT_WINDOW_WIDTH)
    /\ call.window_height = Px(DEFAULT_WINDOW_HEIGHT)
    /\ call.right /\ call.floor
    /\ call.integrated.x > call.window_width - Px(PET_WIDTH)
    /\ pet.x = call.window_width - Px(PET_WIDTH)
    /\ pet.y = call.window_height - Px(PET_HEIGHT)

\* C2 (grounded-zero-vy): in every state reachable by reset and advance
\* calls, is_on_ground implies velocity_y = 0.
C2_GroundedZeroVy == pet.is_on_ground => pet.velocity_y = 0

\* an advance landed a pet that was moving vertically
C2_Witness ==
    /\ IsAdvance
    /\ call.floor
    /\ call.integrated.velocity_y # 0
    /\ pet.is_on_ground

\* C3 (is_on_ground iff resting on the bottom edge): after every advance,
\* is_on_ground is true exactly when position.y = effective_height - 30 for
\* the height of that call.  It is stated of the calls where it asks least:
\* the viewport is tall enough to hold the pet and time has passed since the
\* previous call.
C3_GroundIffOnFloor ==
    (/\ IsAdvance
     /\ call.effective_height >= Px(PET_HEIGHT)
     /\ call.delta_time > 0)
    => (pet.is_on_ground <=> pet.y = call.effective_height - Px(PET_HEIGHT))

\* C4 (classifier purity): in every state the label is the table of 4.4
\* applied to (is_on_ground, velocity, facing_direction).
C4_ClassifierTable ==
    LET airborne == ~pet.is_on_ground
        running == pet.is_on_ground /\ Abs(pet.velocity_x) > MOVEMENT_THRESHOLD * VEL
        idle == pet.is_on_ground /\ Abs(pet.velocity_x) <= MOVEMENT_THRESHOLD * VEL
        right == pet.facing_direction
    IN  /\ (airborne /\ pet.velocity_y < 0 /\ right) => pet.animation_state = "jump-right"
        /\ (airborne /\ pet.velocity_y < 0 /\ ~right) => pet.animation_state = "jump-left"
        /\ (airborne /\ pet.velocity_y >= 0 /\ right) => pet.animation_state = "fall-right"
        /\ (airborne /\ pet.velocity_y >= 0 /\ ~right) => pet.animation_state = "fall-left"
        /\ (running /\ pet.velocity_x >= 0) => pet.animation_state = "run-right"
        /\ (running /\ pet.velocity_x < 0) => pet.animation_state = "run-left"
        /\ (idle /\ right) => pet.animation_state = "idle-right"
        /\ (idle /\ ~right) => pet.animation_state = "idle-left"

\* an advance left the pet running right while it faces left: the label
\* follows the sign of velocity_x, not facing_direction
C4_Witness ==
    /\ IsAdvance
    /\ pet.is_on_ground
    /\ pet.velocity_x > MOVEMENT_THRESHOLD * VEL
    /\ ~pet.facing_direction
    /\ pet.animation_state = "run-right"

\* C5 (reset determinism): after reset(w, h) with w > 0 and h > 0 the pet is
\* at x = w/2 - 16, y = h - 30 with zero velocity, grounded, facing right and
\* labelled idle-right, whatever the state before.
C5_ResetDeterminism ==
    (IsReset /\ call.window_width > 0 /\ call.window_height > 0)
    => /\ 2 * pet.x = call.window_width - Px(PET_WIDTH)
       /\ pet.y = call.window_height - Px(PET_HEIGHT)
       /\ pet.velocity_x = 0 /\ pet.velocity_y = 0
       /\ pet.is_on_ground
       /\ pet.facing_direction
       /\ pet.animation_state = "idle-right"

\* a reset with a valid viewport found the pet airborne and facing left
C5_Witness ==
    /\ IsReset
    /\ call.window_width > 0 /\ call.window_height > 0
    /\ ~call.before.is_on_ground
    /\ ~call.before.facing_direction
    /\ pet.is_on_ground /\ pet.facing_direction

\* C6 as claimed (position always inside the viewport): after every reset
\* and advance, for any non-negative viewport dimensions, position.x is in
\* [0, W - 32] and position.y is in [0, H - 30] for the effective dimensions
\* W, H of that call.
C6_AlwaysInside ==
    (IsAdvance \/ IsReset)
    => /\ Within(pet.x, 0, call.effective_width - Px(PET_WIDTH))
       /\ Within(pet.y, 0, call.effective_height - Px(PET_HEIGHT))

\* C6 amended: after every reset and advance, position.x is in [0, W - 32]
\* when the effective width W is at least 32 and position.y is in
\* [0, H - 30] when the effective height H is at least 30.
C6_InsideWhenPetFits ==
    (IsAdvance \/ IsReset)
    => /\ call.effective_width >= Px(PET_WIDTH)
          => Within(pet.x, 0, call.effective_width - Px(PET_WIDTH))
       /\ call.effective_height >= Px(PET_HEIGHT)
          => Within(pet.y, 0, call.effective_height - Px(PET_HEIGHT))

\* an advance with a viewport barely larger than the pet stopped it at the
\* ceiling and at the left wall
C6_Witness ==
    /\ IsAdvance
    /\ call.effective_width >= Px(PET_WIDTH)
    /\ call.effective_width < Px(2 * PET_WIDTH)
    /\ call.effective_height >= Px(PET_HEIGHT)
    /\ call.ceiling /\ call.left
    /\ pet.x = 0 /\ pet.y = 0

\* C7 (invalid-viewport substitution in both operations): in reset as in
\* advance, a dimension at or below the threshold (10) is replaced by its
\* default before any position is computed from it, so the call has the
\* result of the same call with the default in that dimension.
C7_SameSubstitution ==
    LET width == IF call.window_width <= Px(UPDATE_MIN_DIM)
                 THEN Px(DEFAULT_WINDOW_WIDTH) ELSE call.window_width
        height == IF call.window_height <= Px(UPDATE_MIN_DIM)
                  THEN Px(DEFAULT_WINDOW_HEIGHT) ELSE call.window_height
    IN  /\ IsAdvance => /\ call.effective_width = width
                        /\ call.effective_height = height
        /\ IsReset => /\ call.effective_width = width
                      /\ call.effective_height = height
                      /\ 2 * pet.x = width - Px(PET_WIDTH)
                      /\ pet.y = height - Px(PET_HEIGHT)

\* C8 (delta-time clamp): in every advance the delta_time integrated with is
\* min(elapsed, 0.05) for the time elapsed since last_update and is not
\* negative, last_update becomes the reading of the clock, and before the
\* boundary rules the pet has moved by at most |velocity| * 0.05 on each axis.
C8_DeltaTimeClamp ==
    [][call'.op = "get_pet_movement"
       => /\ call'.delta_time = Min(call'.now - pet.last_update, MAX_DELTA)
          /\ call'.delta_time >= 0
          /\ pet'.last_update = call'.now
          /\ Abs(call'.integrated.x - pet.x)
                <= Abs(call'.integrated.velocity_x) * MAX_DELTA
          /\ Abs(call'.integrated.y - pet.y)
                <= Abs(call'.integrated.velocity_y) * MAX_DELTA]_vars

\* an advance ten seconds after the previous call integrated a moving pet
\* with 0.05 s
C8_Witness ==
    /\ IsAdvance
    /\ call.elapsed = 10000
    /\ call.delta_time = MAX_DELTA
    /\ call.integrated.velocity_x # 0
    /\ call.integrated.velocity_y # 0
    /\ pet.last_update = call.now

\* the pet crossed the left edge moving left / the right edge moving right
CrossedLeft == IsAdvance /\ call.left /\ call.integrated.velocity_x < 0
CrossedRight == IsAdvance /\ call.right /\ call.integrated.velocity_x > 0

\* to the resolution of the velocity: after = -(num/den) * before
Rebound(after, before, num, den) == Abs(den * after + num * before) < den

\* C9 as claimed (bounce energy loss): an advance in which the pet crosses
\* the left edge moving left at speed v ends with velocity_x = +0.8 v, one
\* in which it crosses the right edge moving right at speed v ends with
\* velocity_x = -0.5 v.
C9_BounceFactors ==
    /\ CrossedLeft => Rebound(pet.velocity_x, call.integrated.velocity_x, 4, 5)
    /\ CrossedRight => Rebound(pet.velocity_x, call.integrated.velocity_x, 1, 2)

\* C9 amended: the same, in an advance where the other wall's rule does not
\* fire as well (it cannot when the effective width is at least 32).
C9_BounceFactorsOneWall ==
    /\ (CrossedLeft /\ ~call.right)
       => Rebound(pet.velocity_x, call.integrated.velocity_x, 4, 5)
    /\ (CrossedRight /\ ~call.left)
       => Rebound(pet.velocity_x, call.integrated.velocity_x, 1, 2)

\* an advance bounced a pet moving left off the left wall alone
C9_Witness ==
    /\ CrossedLeft
    /\ ~call.right
    /\ pet.x = 0
    /\ pet.velocity_x > 0

\* C10 as claimed (edge collisions exclude each other per axis): in no
\* advance, for any viewport, do the floor and the ceiling rule both fire,
\* nor the left-wall and the right-wall rule.
C10_RulesExclusive ==
    IsAdvance => /\ ~(call.floor /\ call.ceiling)
                 /\ ~(call.left /\ call.right)

\* C10 amended: in no advance whose effective height is at least 30 do the
\* floor and the ceiling rule both fire, and in no advance whose effective
\* width is at least 32 do the left-wall and the right-wall rule both fire.
C10_RulesExclusiveWhenPetFits ==
    IsAdvance => /\ call.effective_height >= Px(PET_HEIGHT)
                    => ~(call.floor /\ call.ceiling)
                 /\ call.effective_width >= Px(PET_WIDTH)
                    => ~(call.left /\ call.right)

\* an advance with a viewport in which the pet fits fired the floor rule
\* alone on the vertical axis and the right-wall rule alone on the other
C10_Witness ==
    /\ IsAdvance
    /\ call.effective_height >= Px(PET_HEIGHT)
    /\ call.effective_width >= Px(PET_WIDTH)
    /\ call.floor /\ ~call.ceiling
    /\ call.right /\ ~call.left

\* the pet stands still where new(w, h) would put it, for the viewport of
\* the advance that follows
AtRest(self, window_width, window_height) ==
    /\ self.is_on_ground
    /\ self.velocity_x = 0 /\ self.velocity_y = 0
    /\ 2 * self.x = window_width - Px(PET_WIDTH)
    /\ self.y = window_height - Px(PET_HEIGHT)

IdleLabel(self) == IF self.facing_direction THEN "idle-right" ELSE "idle-left"

\* C12 as claimed (rest is a fixed point): if the pet is grounded with zero
\* velocity at reset's position for a valid viewport (w, h), an advance(w, h)
\* whose jump trial fails leaves position, velocity, is_on_ground and
\* facing_direction unchanged and returns idle-right.
C12_RestIsFixedPoint ==
    [][(/\ call'.op = "get_pet_movement"
        /\ ~call'.jump
        /\ call'.window_width > Px(UPDATE_MIN_DIM)
        /\ call'.window_height > Px(UPDATE_MIN_DIM)
        /\ AtRest(pet, call'.window_width, call'.window_height))
       => /\ Motion(pet') = Motion(pet)
          /\ Stance(pet') = Stance(pet)
          /\ pet'.animation_state = "idle-right"]_vars

\* C12 amended: the same for a viewport that holds the pet (w >= 32 and
\* h >= 30), and the label returned is the idle label of the facing
\* direction, idle-right for the state reset leaves.
C12_RestIsFixedPointWhenPetFits ==
    [][(/\ call'.op = "get_pet_movement"
        /\ ~call'.jump
        /\ call'.window_width >= Px(PET_WIDTH)
        /\ call'.window_height >= Px(PET_HEIGHT)
        /\ AtRest(pet, call'.window_width, call'.window_height))
       => /\ Motion(pet') = Motion(pet)
          /\ Stance(pet') = Stance(pet)
          /\ pet'.animation_state = IdleLabel(pet)]_vars

\* an advance of 16 ms without a jump left the pet of reset(400, 300) at
\* (184, 270), idle-right
C12_Witness ==
    /\ IsAdvance
    /\ ~call.jump
    /\ call.delta_time > 0
    /\ call.window_width = Px(DEFAULT_WINDOW_WIDTH)
    /\ call.window_height = Px(DEFAULT_WINDOW_HEIGHT)
    /\ call.before.is_on_ground
    /\ call.integrated = Motion(pet)
    /\ AtRest(pet, call.window_width, call.window_height)
    /\ pet.animation_state = "idle-right"

\* C13 as claimed (jumps start only from the ground): velocity_y is set to
\* the jump force only in an advance that began grounded, and that advance
\* applies no gravity to it; between any two jump impulses there is an
\* advance whose floor rule set is_on_ground.
C13_JumpsOnlyFromGround ==
    [][call'.impulse
       => /\ pet.is_on_ground
          /\ call'.integrated.velocity_y = JUMP_FORCE * VEL
          /\ ~call.unlanded]_vars

\* C13 amended: velocity_y is set to the jump force only in an advance that
\* began grounded, and that advance applies no gravity to it; an airborne
\* pet becomes grounded only in an advance whose floor rule fires or by a
\* reset, so that between any two jump impulses there is such an advance or
\* a reset.
C13_JumpsOnlyFromGroundOrReset ==
    [][/\ call'.impulse
          => /\ pet.is_on_ground
             /\ call'.integrated.velocity_y = JUMP_FORCE * VEL
       /\ (~pet.is_on_ground /\ pet'.is_on_ground)
          => (call'.floor \/ call'.op = "reset_pet_position")]_vars

\* an advance gave a grounded pet the impulse and left it in the air
C13_Witness ==
    /\ IsAdvance
    /\ call.impulse
    /\ call.before.is_on_ground
    /\ call.delta_time > 0
    /\ call.integrated.velocity_y = JUMP_FORCE * VEL
    /\ call.unlanded
    /\ ~pet.is_on_ground

\* C14 (a wall collision reverses direction away from the wall): after an
\* advance in which the left-wall rule fires velocity_x >= 0, and after one
\* in which only the right-wall rule fires velocity_x <= 0.
C14_AwayFromWall ==
    IsAdvance => /\ call.left => pet.velocity_x >= 0
                 /\ (call.right /\ ~call.left) => pet.velocity_x <= 0

\* C15 as claimed (horizontal speed never exceeds the launch maximum): in
\* every reachable state |velocity_x| < 200.
C15_SpeedBelowMax == Abs(pet.velocity_x) < MAX_SPEED_X * VEL

\* C15 amended: in every reachable state |velocity_x| <= 200; a jump leaves
\* velocity_x in [0, 200) when the pet faced right and in [-200, 0) when it
\* faced left, or, inverted, in (-100, 0] and in [0, 100]; the collision
\* rules of an advance never enlarge the magnitude.
C15_SpeedAtMostMax ==
    /\ Abs(pet.velocity_x) <= MAX_SPEED_X * VEL
    /\ (IsAdvance /\ call.impulse)
       => LET v == call.integrated.velocity_x
              half == (MAX_SPEED_X * VEL) \div 2
          IN  IF call.before.facing_direction
              THEN (0 <= v /\ v < MAX_SPEED_X * VEL) \/ (-half < v /\ v <= 0)
              ELSE (-(MAX_SPEED_X * VEL) <= v /\ v < 0) \/ (0 <= v /\ v <= half)
    /\ IsAdvance => Abs(pet.velocity_x) <= Abs(call.integrated.velocity_x)

\* a pet facing left was launched at exactly -200 and bounced off the left
\* wall
C15_Witness ==
    /\ IsAdvance
    /\ call.impulse
    /\ ~call.before.facing_direction
    /\ call.integrated.velocity_x = -(MAX_SPEED_X * VEL)
    /\ call.left
    /\ 0 < pet.velocity_x /\ pet.velocity_x < MAX_SPEED_X * VEL

\* C16 (facing changes only at a wall or on reset): an advance in which
\* neither the left-wall nor the right-wall rule fires leaves
\* facing_direction as it was before the call, whatever the jump, the
\* inversion, the floor rule and the ceiling rule did; a command that changes
\* facing_direction is an advance with a wall rule firing or a reset.
C16_FacingOnlyAtWall ==
    [][/\ (call'.op = "get_pet_movement" /\ ~call'.left /\ ~call'.right)
          => pet'.facing_direction = pet.facing_direction
       /\ pet'.facing_direction # pet.facing_direction
          => \/ call'.op = "reset_pet_position"
             \/ call'.left
             \/ call'.right]_vars

\* a pet facing right jumped with an inverted (leftward) launch, met no
\* wall, and still faces right while it moves left
C16_Witness ==
    /\ IsAdvance
    /\ call.impulse
    /\ call.delta_time > 0
    /\ call.before.facing_direction
    /\ call.integrated.velocity_x < 0
    /\ ~call.left /\ ~call.right
    /\ pet.velocity_x < 0
    /\ pet.facing_direction

InCommand(t) == task[t].pc \in {"locked", "updated", "read"}

\* C11 (mutual exclusion of advance and reset): with the commands invoked
\* concurrently from several callbacks, a callback that has begun a command's
\* body and not yet returned holds the single lock, so no two callbacks are
\* inside a command at once, and the triple a call returns is the state that
\* call itself produced.
C11_WholeCallsUnderLock ==
    /\ \A t \in Callbacks : InCommand(t) => mutex = t
    /\ \A t \in Callbacks :
           task[t].pc = "read" => task[t].returned = task[t].produced

\* one callback has read the triple of its advance while the other, which
\* invoked a reset, waits for the lock
C11_Witness ==
    \E t, u \in Callbacks :
        /\ task[t].pc = "read"
        /\ task[t].op = "get_pet_movement"
        /\ task[t].returned = Triple(pet)
        /\ mutex = t
        /\ task[u].pc = "invoked"
        /\ task[u].op = "reset_pet_position"
        /\ call.seq >= 2

\* C17 (an airborne pet eventually lands): in a viewport that stays as it
\* is, with frames of delta_time > 0 taken again and again (weak fairness),
\* every state with is_on_ground false is followed by a state with
\* is_on_ground true, also after the ceiling rule has zeroed velocity_y and
\* when the pet is airborne at the floor coordinate itself.
C17_AirborneLands == (~pet.is_on_ground) ~> pet.is_on_ground

\* a pet that was airborne at the start of a frame with delta_time > 0 has
\* been put down by the floor rule
C17_Witness ==
    /\ IsAdvance
    /\ call.delta_time > 0
    /\ ~call.before.is_on_ground
    /\ call.floor
    /\ pet.is_on_ground
    /\ pet.y = call.effective_height - Px(PET_HEIGHT)

====
